---- MODULE Spec2Model ----
(***************************************************************************)
(* Cross-validation engine of clinica/pipeline/machine_learning/           *)
(* validation.py: the three validation classes KFoldCV, RepeatedKFoldCV    *)
(* and RepeatedSplit, the thread pool their validate() methods dispatch    *)
(* the evaluate calls to, and save_results().                              *)
(*                                                                         *)
(* One instance of one of the three classes is modelled.  The caller is a  *)
(* single thread: it is inside at most one validate() call (pc says where) *)
(* and calls save_results() only between validate() calls.  The pool's     *)
(* worker threads run concurrently with the caller.                        *)
(*                                                                         *)
(* Four specifications share the variables: Spec is the calls and the      *)
(* pool, SpecResample the content of the partitions on every label vector, *)
(* SpecAggregate save_results() and compute_variance() on every stored     *)
(* collection of FoldResults, SpecFair one validate() call under fair      *)
(* scheduling with evaluate calls that may never return.                   *)
(*                                                                         *)
(* Code indices are 0-based (range(n)); sequences here are 1-based, so the *)
(* code's x[i] is x[i + 1] below.                                          *)
(***************************************************************************)
EXTENDS Integers, Sequences, FiniteSets, TLC

\* ------------------------------------------------------------------ bounds

\* validate() calls made on the instance in one behaviour
MaxCalls == 2
\* largest n_folds a caller passes
MaxFolds == 2
\* largest n_iterations a caller passes
MaxIter == 2
\* largest n_threads a caller passes
MaxThreads == 2
\* most FoldResults a RepeatedKFoldCV instance holds: those it stores and those
\* of the evaluate tasks a validate() call dispatches
MaxTasks == 4
\* save_results() calls made on the instance in one behaviour
MaxSaves == 2
\* longest label vector a caller passes
MaxSamples == 3
\* longest label vector a caller passes to RepeatedSplit.validate: a stratified
\* shuffle split needs two members of every class
MaxSplitSamples == 4
\* most FoldResults an instance stores when save_results() or compute_variance() is called
MaxStored == 3

\* ------------------------------------------------------------ Python values

\* Python's None, and a value that is not None
None == [some |-> FALSE]
Some(v) == [some |-> TRUE, v |-> v]
\* x is None
IsNone(x) == ~x.some
\* l.append(x) on a list l
ListAppend(l, x) == Some(Append(l.v, x))

RECURSIVE Flatten(_)
\* [result for fold in nested for result in fold]
Flatten(nested) ==
    IF nested = <<>> THEN <<>> ELSE Head(nested) \o Flatten(Tail(nested))

Classes == {"KFoldCV", "RepeatedKFoldCV", "RepeatedSplit"}

\* ----------------------------------------------------------------- numbers
\* A number is the fraction num/den in lowest terms, den > 0.  Floating-point
\* rounding is left out: a float is the fraction it stands for.

RECURSIVE GCD(_, _)
GCD(a, b) == IF b = 0 THEN a ELSE GCD(b, a % b)

Abs(a) == IF a < 0 THEN -a ELSE a

\* the number n/d, d # 0
Frac(n, d) ==
    LET g == GCD(Abs(n), Abs(d))
        s == IF d < 0 THEN -1 ELSE 1
    IN  [num |-> (s * n) \div g, den |-> (s * d) \div g]

\* float('nan'): not a number
NaN == [num |-> 0, den |-> 0]
IsNaN(a) == a.den = 0

\* a + b, a - b, a * b; NaN if an operand is NaN
Plus(a, b) == IF IsNaN(a) \/ IsNaN(b) THEN NaN
              ELSE Frac(a.num * b.den + b.num * a.den, a.den * b.den)
Minus(a, b) == IF IsNaN(a) \/ IsNaN(b) THEN NaN
               ELSE Frac(a.num * b.den - b.num * a.den, a.den * b.den)
Times(a, b) == IF IsNaN(a) \/ IsNaN(b) THEN NaN
               ELSE Frac(a.num * b.num, a.den * b.den)

\* a / b in floating point, b # 0
TrueDiv(a, b) == IF IsNaN(a) \/ IsNaN(b) THEN NaN
                 ELSE Frac(a.num * b.den, a.den * b.num)

\* a / b on two Python 2 ints without "from __future__ import division":
\* the floor of the quotient, b # 0
FloorDiv(a, b) == IF b > 0 THEN a \div b ELSE (-a) \div (-b)

\* a Python int and a Python float
PyInt(n) == [type |-> "int", val |-> Frac(n, 1)]
PyFloat(n, d) == [type |-> "float", val |-> Frac(n, d)]

\* the default of RepeatedSplit.__init__'s test_size: 0.3
DefaultTestSize == PyFloat(3, 10)

\* the test_size values a caller constructs a RepeatedSplit with:
\* 0.3, 0.5, 1.0, and the absolute test set sizes 1 and 2
TestSizes == {DefaultTestSize, PyFloat(1, 2), PyFloat(1, 1), PyInt(1), PyInt(2)}

VARIABLES
    cls,                    \* the class of the instance
    y,                      \* the label vector given to validate()
    self_n_iterations,      \* RepeatedSplit._n_iterations
    self_test_size,         \* RepeatedSplit._test_size
    self_resampled_t,       \* RepeatedSplit._resampled_t
    self_corrected_resampled_t, \* RepeatedSplit._corrected_resampled_t
    test_error_split,       \* compute_variance()'s test_error_split, as the latest call left it
    variance_ret,           \* how the latest compute_variance() call ended
    fold_results,           \* KFoldCV._fold_results
    repeated_fold_results,  \* RepeatedKFoldCV._repeated_fold_results
    split_results,          \* RepeatedSplit._split_results
    classifier,             \* self._classifier
    best_params,            \* self._best_params
    cv,                     \* self._cv
    pc,                     \* where the caller is inside validate(), or "idle"
    frame,                  \* validate()'s arguments and loop variables
    async_result,           \* the tasks given to the pool, in dispatch order
    evaluate_calls,         \* arguments of the evaluate calls of this validate()
    apply_calls,            \* arguments of the apply_best_parameters calls of this validate()
    ret,                    \* how the latest validate() call ended
    ncalls,                 \* validate() calls started so far
    dirs,                   \* directories save_results() created
    files,                  \* files save_results() wrote: path -> content
    save_ret,               \* how the latest save_results() call ended
    nsaves                  \* save_results() calls made so far

vars == <<cls, y, self_n_iterations, self_test_size, self_resampled_t,
          self_corrected_resampled_t, test_error_split, variance_ret, fold_results, repeated_fold_results, split_results,
          classifier, best_params, cv, pc, frame, async_result, evaluate_calls,
          apply_calls, ret, ncalls, dirs, files, save_ret, nsaves>>

variance_vars == <<self_resampled_t, self_corrected_resampled_t, test_error_split, variance_ret>>
instance_vars == <<cls, y, self_n_iterations, self_test_size, variance_vars>>
result_vars == <<fold_results, repeated_fold_results, split_results>>
model_vars == <<classifier, best_params>>
fs_vars == <<dirs, files, save_ret, nsaves>>

\* ------------------------------------------------------------- collaborators

\* The r-th iteration's i-th partition generated by validate() call number c.
\* StratifiedKFold(shuffle=True) and StratifiedShuffleSplit are built anew,
\* unseeded, in every call: the partitions of two calls are different objects.
Partition(c, r, i) == [call |-> c, r |-> r, i |-> i]

\* list(skf.split(np.zeros(len(y)), y)): n_folds partitions, in fold order
StratifiedKFoldSplit(c, r, n_folds) == [i \in 1..n_folds |-> Partition(c, r, i - 1)]

\* list(splits.split(np.zeros(len(y)), y)): n_splits partitions
StratifiedShuffleSplitSplit(c, n_splits) == [i \in 1..n_splits |-> Partition(c, 0, i - 1)]

\* StratifiedKFold(n_splits=n_folds, ...) refuses n_splits < 2 with a ValueError
KFoldRefuses(n_folds) == n_folds < 2

\* the seven metrics of a FoldResult that save_results() tabulates
MetricColumns ==
    {"balanced_accuracy", "auc", "accuracy", "sensitivity", "specificity", "ppv", "npv"}

\* the metrics of fr['evaluation']
EvaluationKeys == MetricColumns \ {"auc"}

\* A FoldResult, the dict evaluate returns: the labels y, the predictions y_hat
\* and the indices y_index of the test samples, the 'evaluation' dict and 'auc'
FoldResult(labels, y_hat, y_index, evaluation, auc) ==
    [y |-> labels, y_hat |-> y_hat, y_index |-> y_index, evaluation |-> evaluation, auc |-> auc]

\* In the specification of the calls and the pool the classifier is fixed: it
\* tests one sample per partition, the sample of the partition's position,
\* predicts its label, and every metric is 1.
EvaluatedOn(p) ==
    FoldResult(<<1>>, <<1>>, <<p.i>>, [c \in EvaluationKeys |-> Frac(1, 1)], Frac(1, 1))

\* ml_algorithm.evaluate(train_index, test_index) on a partition, when it returns:
\* the FoldResult, which the model tags with the partition it was computed on
Evaluate(p) == [part |-> p] @@ EvaluatedOn(p)

\* what ml_algorithm.evaluate raises, when it raises
EvaluateError == [type |-> "Exception", raised_by |-> "evaluate"]

\* the exception object the evaluate call of task k raised: two calls raise two objects
EvaluateErrorIn(k) == EvaluateError @@ [task |-> k]

\* ml_algorithm.apply_best_parameters(results) -> (classifier, best_params)
ApplyBestParameters(results) ==
    <<Some([trained_on |-> results]), Some([selected_from |-> results])>>

\* how a validate() call ended
NoReturn == [kind |-> "none"]
Returned(c, b, res) == [kind |-> "returned", classifier |-> c, best_params |-> b, results |-> res]
Raised(e) == [kind |-> "raised", exc |-> e]

ValueErrorSplits == [type |-> "ValueError", raised_by |-> "StratifiedKFold"]

\* ---------------------------------------------------------------- the pool

\* async_pool.apply_async(evaluate, (train_index, test_index)): a queued task
ApplyAsync(r, i, p) == [r |-> r, i |-> i, args |-> p, st |-> "queued"]

Queued == {k \in 1..Len(async_result) : async_result[k].st = "queued"}
Running == {k \in 1..Len(async_result) : async_result[k].st = "running"}
Finished == {k \in 1..Len(async_result) : async_result[k].st \in {"ok", "raised"}}

\* the pool exists from ThreadPool(n_threads) until join() returns
PoolAlive == pc \in {"dispatch", "dispatch_inner", "join"}

\* the task a free worker takes: the pool's task queue is first in, first out
NextQueued == CHOOSE k \in Queued : \A j \in Queued : k <= j

\* a pool that starts a thread per task
UnboundedWorkers == TRUE

\* a pool none of whose workers ever takes a task
NoWorkerFree == FALSE

\* ThreadPool(n_threads): n_threads workers, each runs one task at a time
WorkerFree == Cardinality(Running) < frame.n_threads

NoFrame == [n_folds |-> 0, n_iterations |-> 0, n_threads |-> 0, r |-> 0, i |-> 0]

\* --------------------------------------------------------------- __init__

\* the instance as __init__ leaves it, but for the collection of FoldResults
ConstructedButResults ==
    /\ cls \in Classes
    /\ self_n_iterations \in (IF cls = "RepeatedSplit" THEN 0..MaxIter ELSE {0})
    /\ self_test_size \in (IF cls = "RepeatedSplit" THEN {Some(t) : t \in TestSizes} ELSE {None})
    /\ self_resampled_t = None
    /\ self_corrected_resampled_t = None
    /\ test_error_split = <<>>
    /\ variance_ret = NoReturn
    /\ classifier = None
    /\ best_params = None
    /\ cv = None
    /\ pc = "idle"
    /\ frame = NoFrame
    /\ async_result = <<>>
    /\ evaluate_calls = <<>>
    /\ apply_calls = <<>>
    /\ ret = NoReturn
    /\ ncalls = 0
    /\ dirs = {}
    /\ files = [p \in {} |-> <<>>]
    /\ save_ret = NoReturn
    /\ nsaves = 0

\* the instance as __init__ leaves it: the collection of its class is empty
Constructed ==
    /\ ConstructedButResults
    /\ fold_results = (IF cls = "KFoldCV" THEN Some(<<>>) ELSE None)
    /\ repeated_fold_results = (IF cls = "RepeatedKFoldCV" THEN Some(<<>>) ELSE None)
    /\ split_results = (IF cls = "RepeatedSplit" THEN Some(<<>>) ELSE None)

\* The label vector is left out of the specification of the calls and the pool:
\* there a partition is the call, iteration and position it was generated at.
\* The instance is built with the default test_size.
Init ==
    /\ Constructed
    /\ y = <<>>
    /\ cls = "RepeatedSplit" => self_test_size = Some(DefaultTestSize)

\* ------------------------------------------------------- worker threads

\* a free worker takes the oldest queued task and calls evaluate on its arguments
StartTask ==
    /\ PoolAlive
    /\ Queued # {}
    /\ WorkerFree
    /\ async_result' = [async_result EXCEPT ![NextQueued].st = "running"]
    /\ evaluate_calls' = Append(evaluate_calls, async_result[NextQueued].args)
    /\ UNCHANGED <<instance_vars, result_vars, model_vars, cv, pc, frame, apply_calls,
                   ret, ncalls, fs_vars>>

\* evaluate returns: the worker stores the value in the task's result
FinishTaskOk(k) ==
    /\ k \in Running
    /\ async_result' = [async_result EXCEPT ![k] =
                            [@ EXCEPT !.st = "ok"] @@ [value |-> Evaluate(@.args)]]
    /\ UNCHANGED <<instance_vars, result_vars, model_vars, cv, pc, frame, evaluate_calls,
                   apply_calls, ret, ncalls, fs_vars>>

\* evaluate raises: the worker stores the exception in the task's result
FinishTaskRaise(k) ==
    /\ k \in Running
    /\ async_result' = [async_result EXCEPT ![k] =
                            [@ EXCEPT !.st = "raised"] @@ [exc |-> EvaluateErrorIn(k)]]
    /\ UNCHANGED <<instance_vars, result_vars, model_vars, cv, pc, frame, evaluate_calls,
                   apply_calls, ret, ncalls, fs_vars>>

\* a join() that returns at once
JoinWithoutWaiting ==
    /\ pc = "join"
    /\ pc' = "collect"
    /\ frame' = [frame EXCEPT !.r = 0, !.i = 0]
    /\ UNCHANGED <<instance_vars, result_vars, model_vars, cv, async_result, evaluate_calls,
                   apply_calls, ret, ncalls, fs_vars>>

\* a join() that returns as soon as a task has raised
JoinUntilFailure ==
    /\ pc = "join"
    /\ \/ Finished = 1..Len(async_result)
       \/ \E k \in 1..Len(async_result) : async_result[k].st = "raised"
    /\ pc' = "collect"
    /\ frame' = [frame EXCEPT !.r = 0, !.i = 0]
    /\ UNCHANGED <<instance_vars, result_vars, model_vars, cv, async_result, evaluate_calls,
                   apply_calls, ret, ncalls, fs_vars>>

\* async_pool.close(); async_pool.join(): returns once the workers have run
\* every task given to the pool
Join ==
    /\ pc = "join"
    /\ Finished = 1..Len(async_result)
    /\ pc' = "collect"
    /\ frame' = [frame EXCEPT !.r = 0, !.i = 0]
    /\ UNCHANGED <<instance_vars, result_vars, model_vars, cv, async_result, evaluate_calls,
                   apply_calls, ret, ncalls, fs_vars>>

\* ---------------------------------------------------------------- KFoldCV

\* validate(y, n_folds, n_threads), lines 24-27, when StratifiedKFold refuses
KFoldValidateRefused(n_folds, n_threads) ==
    /\ cls = "KFoldCV"
    /\ pc = "idle"
    /\ ncalls < MaxCalls
    /\ KFoldRefuses(n_folds)
    /\ ncalls' = ncalls + 1
    /\ async_result' = <<>>
    /\ evaluate_calls' = <<>>
    /\ apply_calls' = <<>>
    /\ frame' = [n_folds |-> n_folds, n_iterations |-> 0, n_threads |-> n_threads,
                 r |-> 0, i |-> 0]
    /\ ret' = Raised(ValueErrorSplits)
    /\ UNCHANGED <<instance_vars, result_vars, model_vars, cv, pc, fs_vars>>

\* validate(y, n_folds, n_threads), lines 24-27
KFoldValidate(n_folds, n_threads) ==
    /\ cls = "KFoldCV"
    /\ pc = "idle"
    /\ ncalls < MaxCalls
    /\ ~KFoldRefuses(n_folds)
    /\ ncalls' = ncalls + 1
    /\ cv' = Some(StratifiedKFoldSplit(ncalls + 1, 0, n_folds))
    /\ async_result' = <<>>
    /\ evaluate_calls' = <<>>
    /\ apply_calls' = <<>>
    /\ ret' = NoReturn
    /\ frame' = [n_folds |-> n_folds, n_iterations |-> 0, n_threads |-> n_threads,
                 r |-> 0, i |-> 0]
    /\ pc' = "dispatch"
    /\ UNCHANGED <<instance_vars, result_vars, model_vars, fs_vars>>

\* the dispatch loop, lines 29-32: one apply_async per fold
KFoldDispatch ==
    /\ cls = "KFoldCV"
    /\ pc = "dispatch"
    /\ frame.i < frame.n_folds
    /\ async_result' = Append(async_result, ApplyAsync(0, frame.i, cv.v[frame.i + 1]))
    /\ frame' = [frame EXCEPT !.i = @ + 1]
    /\ UNCHANGED <<instance_vars, result_vars, model_vars, cv, pc, evaluate_calls,
                   apply_calls, ret, ncalls, fs_vars>>

\* the loop is over: async_pool.close(), and join() starts to wait (lines 34-35)
KFoldClose ==
    /\ cls = "KFoldCV"
    /\ pc = "dispatch"
    /\ frame.i = frame.n_folds
    /\ pc' = "join"
    /\ UNCHANGED <<instance_vars, result_vars, model_vars, cv, frame, async_result,
                   evaluate_calls, apply_calls, ret, ncalls, fs_vars>>

\* the collect loop, lines 37-38, when async_result[i].get() returns a value
KFoldGet ==
    /\ cls = "KFoldCV"
    /\ pc = "collect"
    /\ frame.i < frame.n_folds
    /\ async_result[frame.i + 1].st = "ok"
    /\ fold_results' = ListAppend(fold_results, async_result[frame.i + 1].value)
    /\ frame' = [frame EXCEPT !.i = @ + 1]
    /\ UNCHANGED <<instance_vars, repeated_fold_results, split_results, model_vars, cv, pc,
                   async_result, evaluate_calls, apply_calls, ret, ncalls, fs_vars>>

\* a collect loop that re-raises the exception of any task that raised
KFoldGetRaisesAny ==
    /\ cls = "KFoldCV"
    /\ pc = "collect"
    /\ \E k \in 1..Len(async_result) :
           /\ async_result[k].st = "raised"
           /\ ret' = Raised(async_result[k].exc)
    /\ pc' = "idle"
    /\ UNCHANGED <<instance_vars, result_vars, model_vars, cv, frame, async_result,
                   evaluate_calls, apply_calls, ncalls, fs_vars>>

\* the collect loop, when async_result[i].get() re-raises the task's exception:
\* validate() ends there
KFoldGetRaises ==
    /\ cls = "KFoldCV"
    /\ pc = "collect"
    /\ frame.i < frame.n_folds
    /\ async_result[frame.i + 1].st = "raised"
    /\ ret' = Raised(async_result[frame.i + 1].exc)
    /\ pc' = "idle"
    /\ UNCHANGED <<instance_vars, result_vars, model_vars, cv, frame, async_result,
                   evaluate_calls, apply_calls, ncalls, fs_vars>>

\* lines 40-42: apply_best_parameters on self._fold_results, and return
KFoldApply ==
    /\ cls = "KFoldCV"
    /\ pc = "collect"
    /\ frame.i = frame.n_folds
    /\ apply_calls' = Append(apply_calls, fold_results.v)
    /\ classifier' = ApplyBestParameters(fold_results.v)[1]
    /\ best_params' = ApplyBestParameters(fold_results.v)[2]
    /\ ret' = Returned(classifier', best_params', fold_results.v)
    /\ pc' = "idle"
    /\ UNCHANGED <<instance_vars, result_vars, cv, frame, async_result, evaluate_calls,
                   ncalls, fs_vars>>

\* --------------------------------------------------------- RepeatedKFoldCV

\* validate(y, n_iterations, n_folds, n_threads), lines 98-100
RepeatedKFoldValidate(n_iterations, n_folds, n_threads) ==
    /\ cls = "RepeatedKFoldCV"
    /\ pc = "idle"
    /\ ncalls < MaxCalls
    /\ Len(Flatten(repeated_fold_results.v)) + n_iterations * n_folds <= MaxTasks
    /\ ncalls' = ncalls + 1
    /\ cv' = Some(<<>>)
    /\ async_result' = <<>>
    /\ evaluate_calls' = <<>>
    /\ apply_calls' = <<>>
    /\ ret' = NoReturn
    /\ frame' = [n_folds |-> n_folds, n_iterations |-> n_iterations,
                 n_threads |-> n_threads, r |-> 0, i |-> 0]
    /\ pc' = "dispatch"
    /\ UNCHANGED <<instance_vars, result_vars, model_vars, fs_vars>>

\* the head of the outer loop, lines 102-103, when StratifiedKFold refuses:
\* validate() ends there, the pool is left as it is
RepeatedKFoldIterationRefused ==
    /\ cls = "RepeatedKFoldCV"
    /\ pc = "dispatch"
    /\ frame.r < frame.n_iterations
    /\ KFoldRefuses(frame.n_folds)
    /\ ret' = Raised(ValueErrorSplits)
    /\ pc' = "idle"
    /\ UNCHANGED <<instance_vars, result_vars, model_vars, cv, frame, async_result,
                   evaluate_calls, apply_calls, ncalls, fs_vars>>

\* the head of the outer loop, lines 102-106: the iteration's partitions,
\* and one more empty list of results
RepeatedKFoldIteration ==
    /\ cls = "RepeatedKFoldCV"
    /\ pc = "dispatch"
    /\ frame.r < frame.n_iterations
    /\ ~KFoldRefuses(frame.n_folds)
    /\ cv' = Some(Append(cv.v, StratifiedKFoldSplit(ncalls, frame.r, frame.n_folds)))
    /\ repeated_fold_results' = ListAppend(repeated_fold_results, <<>>)
    /\ frame' = [frame EXCEPT !.i = 0]
    /\ pc' = "dispatch_inner"
    /\ UNCHANGED <<instance_vars, fold_results, split_results, model_vars, async_result,
                   evaluate_calls, apply_calls, ret, ncalls, fs_vars>>

\* an inner loop that takes every iteration's partitions from the first iteration
RepeatedKFoldDispatchFirstIteration ==
    /\ cls = "RepeatedKFoldCV"
    /\ pc = "dispatch_inner"
    /\ frame.i < frame.n_folds
    /\ async_result' = Append(async_result,
                              ApplyAsync(frame.r, frame.i, cv.v[1][frame.i + 1]))
    /\ IF frame.i + 1 < frame.n_folds
       THEN /\ frame' = [frame EXCEPT !.i = @ + 1]
            /\ pc' = "dispatch_inner"
       ELSE /\ frame' = [frame EXCEPT !.r = @ + 1, !.i = 0]
            /\ pc' = "dispatch"
    /\ UNCHANGED <<instance_vars, result_vars, model_vars, cv, evaluate_calls,
                   apply_calls, ret, ncalls, fs_vars>>

\* the inner loop, lines 108-111: one apply_async per fold of the iteration
RepeatedKFoldDispatch ==
    /\ cls = "RepeatedKFoldCV"
    /\ pc = "dispatch_inner"
    /\ frame.i < frame.n_folds
    /\ async_result' = Append(async_result,
                              ApplyAsync(frame.r, frame.i, cv.v[frame.r + 1][frame.i + 1]))
    /\ IF frame.i + 1 < frame.n_folds
       THEN /\ frame' = [frame EXCEPT !.i = @ + 1]
            /\ pc' = "dispatch_inner"
       ELSE /\ frame' = [frame EXCEPT !.r = @ + 1, !.i = 0]
            /\ pc' = "dispatch"
    /\ UNCHANGED <<instance_vars, result_vars, model_vars, cv, evaluate_calls,
                   apply_calls, ret, ncalls, fs_vars>>

\* the outer loop is over: async_pool.close(), and join() starts to wait (lines 113-114)
RepeatedKFoldClose ==
    /\ cls = "RepeatedKFoldCV"
    /\ pc = "dispatch"
    /\ frame.r = frame.n_iterations
    /\ pc' = "join"
    /\ UNCHANGED <<instance_vars, result_vars, model_vars, cv, frame, async_result,
                   evaluate_calls, apply_calls, ret, ncalls, fs_vars>>

\* async_result[r][i] in the order the tasks were dispatched
TaskOf(r, i) == r * frame.n_folds + i + 1

\* the collect loops, lines 115-117, when async_result[r][i].get() returns a value:
\* it is appended to the r-th list of self._repeated_fold_results
RepeatedKFoldGet ==
    /\ cls = "RepeatedKFoldCV"
    /\ pc = "collect"
    /\ frame.r < frame.n_iterations
    /\ async_result[TaskOf(frame.r, frame.i)].st = "ok"
    /\ repeated_fold_results' =
           [repeated_fold_results EXCEPT !.v[frame.r + 1] =
                Append(@, async_result[TaskOf(frame.r, frame.i)].value)]
    /\ frame' = IF frame.i + 1 < frame.n_folds
                THEN [frame EXCEPT !.i = @ + 1]
                ELSE [frame EXCEPT !.r = @ + 1, !.i = 0]
    /\ UNCHANGED <<instance_vars, fold_results, split_results, model_vars, cv, pc,
                   async_result, evaluate_calls, apply_calls, ret, ncalls, fs_vars>>

\* the collect loops, when async_result[r][i].get() re-raises the task's exception
RepeatedKFoldGetRaises ==
    /\ cls = "RepeatedKFoldCV"
    /\ pc = "collect"
    /\ frame.r < frame.n_iterations
    /\ async_result[TaskOf(frame.r, frame.i)].st = "raised"
    /\ ret' = Raised(async_result[TaskOf(frame.r, frame.i)].exc)
    /\ pc' = "idle"
    /\ UNCHANGED <<instance_vars, result_vars, model_vars, cv, frame, async_result,
                   evaluate_calls, apply_calls, ncalls, fs_vars>>

\* lines 120-123: apply_best_parameters on the flattened results, and return
RepeatedKFoldApply ==
    /\ cls = "RepeatedKFoldCV"
    /\ pc = "collect"
    /\ frame.r = frame.n_iterations
    /\ apply_calls' = Append(apply_calls, Flatten(repeated_fold_results.v))
    /\ classifier' = ApplyBestParameters(Flatten(repeated_fold_results.v))[1]
    /\ best_params' = ApplyBestParameters(Flatten(repeated_fold_results.v))[2]
    /\ ret' = Returned(classifier', best_params', repeated_fold_results.v)
    /\ pc' = "idle"
    /\ UNCHANGED <<instance_vars, result_vars, cv, frame, async_result, evaluate_calls,
                   ncalls, fs_vars>>

\* ----------------------------------------------------------- RepeatedSplit

\* validate(y, n_threads), lines 209-212
RepeatedSplitValidate(n_threads) ==
    /\ cls = "RepeatedSplit"
    /\ pc = "idle"
    /\ ncalls < MaxCalls
    /\ ncalls' = ncalls + 1
    /\ cv' = Some(StratifiedShuffleSplitSplit(ncalls + 1, self_n_iterations))
    /\ async_result' = <<>>
    /\ evaluate_calls' = <<>>
    /\ apply_calls' = <<>>
    /\ ret' = NoReturn
    /\ frame' = [n_folds |-> 0, n_iterations |-> self_n_iterations,
                 n_threads |-> n_threads, r |-> 0, i |-> 0]
    /\ pc' = "dispatch"
    /\ UNCHANGED <<instance_vars, result_vars, model_vars, fs_vars>>

\* the dispatch loop, lines 214-218: one apply_async per split
RepeatedSplitDispatch ==
    /\ cls = "RepeatedSplit"
    /\ pc = "dispatch"
    /\ frame.i < self_n_iterations
    /\ async_result' = Append(async_result, ApplyAsync(0, frame.i, cv.v[frame.i + 1]))
    /\ frame' = [frame EXCEPT !.i = @ + 1]
    /\ UNCHANGED <<instance_vars, result_vars, model_vars, cv, pc, evaluate_calls,
                   apply_calls, ret, ncalls, fs_vars>>

\* the loop is over: async_pool.close(), and join() starts to wait (lines 219-220)
RepeatedSplitClose ==
    /\ cls = "RepeatedSplit"
    /\ pc = "dispatch"
    /\ frame.i = self_n_iterations
    /\ pc' = "join"
    /\ UNCHANGED <<instance_vars, result_vars, model_vars, cv, frame, async_result,
                   evaluate_calls, apply_calls, ret, ncalls, fs_vars>>

\* the collect loop, lines 222-223, when async_result[i].get() returns a value
RepeatedSplitGet ==
    /\ cls = "RepeatedSplit"
    /\ pc = "collect"
    /\ frame.i < self_n_iterations
    /\ async_result[frame.i + 1].st = "ok"
    /\ split_results' = ListAppend(split_results, async_result[frame.i + 1].value)
    /\ frame' = [frame EXCEPT !.i = @ + 1]
    /\ UNCHANGED <<instance_vars, fold_results, repeated_fold_results, model_vars, cv, pc,
                   async_result, evaluate_calls, apply_calls, ret, ncalls, fs_vars>>

\* the collect loop, when async_result[i].get() re-raises the task's exception
RepeatedSplitGetRaises ==
    /\ cls = "RepeatedSplit"
    /\ pc = "collect"
    /\ frame.i < self_n_iterations
    /\ async_result[frame.i + 1].st = "raised"
    /\ ret' = Raised(async_result[frame.i + 1].exc)
    /\ pc' = "idle"
    /\ UNCHANGED <<instance_vars, result_vars, model_vars, cv, frame, async_result,
                   evaluate_calls, apply_calls, ncalls, fs_vars>>

\* lines 226-228: apply_best_parameters on self._split_results, and return
RepeatedSplitApply ==
    /\ cls = "RepeatedSplit"
    /\ pc = "collect"
    /\ frame.i = self_n_iterations
    /\ apply_calls' = Append(apply_calls, split_results.v)
    /\ classifier' = ApplyBestParameters(split_results.v)[1]
    /\ best_params' = ApplyBestParameters(split_results.v)[2]
    /\ ret' = Returned(classifier', best_params', split_results.v)
    /\ pc' = "idle"
    /\ UNCHANGED <<instance_vars, result_vars, cv, frame, async_result, evaluate_calls,
                   ncalls, fs_vars>>

\* ------------------------------------------------------------ save_results

\* output_dir (iteration = -1, folds = FALSE), output_dir/folds,
\* output_dir/iteration-<r> and output_dir/iteration-<r>/folds
Dir(iteration, folds) == [iteration |-> iteration, folds |-> folds]

\* a file of directory Dir(iteration, folds): name, and the <i> of a per-fold file
File(iteration, folds, name, index) ==
    [iteration |-> iteration, folds |-> folds, name |-> name, index |-> index]

\* pd.DataFrame({'y': ..., 'y_hat': ..., 'y_index': ...}) of one FoldResult:
\* one row per test sample
SubjectsDf(fr) ==
    [k \in 1..Len(fr.y) |-> [y |-> fr.y[k], y_hat |-> fr.y_hat[k], y_index |-> fr.y_index[k]]]

\* a results frame whose auc and accuracy columns are exchanged
ResultsDfExchanged(fr) ==
    <<[c \in MetricColumns |->
         CASE c = "auc" -> fr.evaluation["accuracy"]
           [] c = "accuracy" -> fr.auc
           [] OTHER -> fr.evaluation[c]]>>

\* pd.DataFrame({'balanced_accuracy': ..., ...}, index=['i']) of one FoldResult: one row,
\* 'auc' from fr['auc'], the other columns from fr['evaluation']
ResultsDf(fr) ==
    <<[c \in MetricColumns |-> IF c = "auc" THEN fr.auc ELSE fr.evaluation[c]]>>

RECURSIVE FlattenReversed(_)
\* a concatenation that puts the later frames first
FlattenReversed(frames) ==
    IF frames = <<>> THEN <<>> ELSE FlattenReversed(Tail(frames)) \o Head(frames)

\* pd.concat(frames) of a non-empty list of frames: their rows, in list order
Concat(frames) == Flatten(frames)

\* the column c of a frame, top down
Column(df, c) == [k \in 1..Len(df) |-> df[k][c]]

RECURSIVE SumSeq(_)
\* the sum of a sequence of numbers
SumSeq(xs) == IF xs = <<>> THEN Frac(0, 1) ELSE Plus(Head(xs), SumSeq(Tail(xs)))

\* np.mean: the sum over the count; NaN as soon as a value is NaN
Mean(xs) == IF xs = <<>> THEN NaN ELSE TrueDiv(SumSeq(xs), Frac(Len(xs), 1))

\* a mean that does not skip the missing values
MeanOfAll(xs) == Mean(xs)

\* a mean of the values that are not NaN that is 0 when there is none
ZeroWhenAllMissing(xs) ==
    IF SelectSeq(xs, LAMBDA x : ~IsNaN(x)) = <<>> THEN Frac(0, 1)
    ELSE Mean(SelectSeq(xs, LAMBDA x : ~IsNaN(x)))

\* np.nanmean: the mean of the values that are not NaN; NaN when there is none
NanMean(xs) == Mean(SelectSeq(xs, LAMBDA x : ~IsNaN(x)))

\* pd.DataFrame(df.apply(np.nanmean).to_dict(), columns=df.columns, index=[0]): one row,
\* the np.nanmean of every column
MeanResults(df) == <<[c \in MetricColumns |-> NanMean(Column(df, c))]>>

\* "No results to save. Method validate() must be run before save_results()."
NoResultsError == [type |-> "Exception", raised_by |-> "save_results"]

\* pd.concat([]) raises ValueError("No objects to concatenate")
ConcatError == [type |-> "ValueError", raised_by |-> "pd.concat"]

SaveReturned == [kind |-> "returned"]

\* per-fold files that leave out the first fold
FoldFilesButFirst(iteration, results) ==
    [p \in {File(iteration, TRUE, name, i) :
                name \in {"subjects_fold", "results_fold"}, i \in 1..(Len(results) - 1)} |->
        IF p.name = "subjects_fold"
        THEN SubjectsDf(results[p.index + 1])
        ELSE ResultsDf(results[p.index + 1])]

\* the per-fold files of lines 55-72 (146-163): subjects_fold-<i>.tsv, results_fold-<i>.tsv
FoldFiles(iteration, results) ==
    [p \in {File(iteration, TRUE, name, i) :
                name \in {"subjects_fold", "results_fold"}, i \in 0..(Len(results) - 1)} |->
        IF p.name = "subjects_fold"
        THEN SubjectsDf(results[p.index + 1])
        ELSE ResultsDf(results[p.index + 1])]

\* subjects.tsv, results.tsv and mean_results.tsv of one directory
TableFiles(iteration, subjects, results) ==
    [p \in {File(iteration, FALSE, name, -1) :
                name \in {"subjects.tsv", "results.tsv", "mean_results.tsv"}} |->
        CASE p.name = "subjects.tsv" -> subjects
          [] p.name = "results.tsv" -> results
          [] OTHER -> MeanResults(results)]

\* [f(x) for x in list]
SubjectsList(results) == [i \in 1..Len(results) |-> SubjectsDf(results[i])]
ResultsList(results) == [i \in 1..Len(results) |-> ResultsDf(results[i])]

\* a save_results that makes the folds directory without looking whether it exists
KFoldSaveResultsNoExistsCheck ==
    /\ cls = "KFoldCV"
    /\ pc = "idle"
    /\ nsaves < MaxSaves
    /\ nsaves' = nsaves + 1
    /\ IF Dir(-1, TRUE) \in dirs
       THEN /\ save_ret' = Raised([type |-> "OSError", raised_by |-> "os.makedirs"])
            /\ UNCHANGED <<dirs, files>>
       ELSE /\ dirs' = dirs \cup {Dir(-1, FALSE), Dir(-1, TRUE)}
            /\ IF fold_results.v = <<>>
               THEN /\ save_ret' = Raised(ConcatError)
                    /\ UNCHANGED files
               ELSE /\ files' = (FoldFiles(-1, fold_results.v)
                                 @@ TableFiles(-1, Concat(SubjectsList(fold_results.v)),
                                               Concat(ResultsList(fold_results.v))))
                                @@ files
                    /\ save_ret' = SaveReturned
    /\ UNCHANGED <<instance_vars, result_vars, model_vars, cv, pc, frame, async_result,
                   evaluate_calls, apply_calls, ret, ncalls>>

\* KFoldCV.save_results(output_dir), lines 44-84
KFoldSaveResults ==
    /\ cls = "KFoldCV"
    /\ pc = "idle"
    /\ nsaves < MaxSaves
    /\ nsaves' = nsaves + 1
    /\ IF IsNone(fold_results)
       THEN /\ save_ret' = Raised(NoResultsError)
            /\ UNCHANGED <<dirs, files>>
       ELSE /\ dirs' = dirs \cup {Dir(-1, FALSE), Dir(-1, TRUE)}
            /\ IF fold_results.v = <<>>
               THEN /\ save_ret' = Raised(ConcatError)
                    /\ UNCHANGED files
               ELSE /\ files' = (FoldFiles(-1, fold_results.v)
                                 @@ TableFiles(-1, Concat(SubjectsList(fold_results.v)),
                                               Concat(ResultsList(fold_results.v))))
                                @@ files
                    /\ save_ret' = SaveReturned
    /\ UNCHANGED <<instance_vars, result_vars, model_vars, cv, pc, frame, async_result,
                   evaluate_calls, apply_calls, ret, ncalls>>

\* the iterations the loop of line 132 goes through before pd.concat raises on an
\* iteration without results (line 165), or all of them
IterationsEntered(nested) ==
    LET empty == {r \in 1..Len(nested) : nested[r] = <<>>}
    IN  IF empty = {} THEN Len(nested)
        ELSE CHOOSE r \in empty : \A q \in empty : r <= q

\* the iterations whose files are all written
IterationsSaved(nested) ==
    IF \E r \in 1..Len(nested) : nested[r] = <<>>
    THEN IterationsEntered(nested) - 1
    ELSE Len(nested)

\* the files of iteration-<r>/ and iteration-<r>/folds/, lines 145-177
IterationFiles(r, results) ==
    FoldFiles(r, results)
    @@ TableFiles(r, Concat(SubjectsList(results)), Concat(ResultsList(results)))

RECURSIVE IterationsFiles(_, _)
\* the files of the first n iterations
IterationsFiles(nested, n) ==
    IF n = 0 THEN [p \in {} |-> <<>>]
    ELSE IterationFiles(n - 1, nested[n]) @@ IterationsFiles(nested, n - 1)

\* an all_results_list that takes the fold rows of the iteration
IterationFoldRows(results) == Concat(ResultsList(results))

\* what the iteration appends to all_results_list, lines 170-178: mean_results_df,
\* the mean row of the iteration's results table
IterationMeanResults(results) == MeanResults(Concat(ResultsList(results)))

\* RepeatedKFoldCV.save_results(output_dir), lines 125-191
RepeatedKFoldSaveResults ==
    /\ cls = "RepeatedKFoldCV"
    /\ pc = "idle"
    /\ nsaves < MaxSaves
    /\ nsaves' = nsaves + 1
    /\ IF IsNone(repeated_fold_results)
       THEN /\ save_ret' = Raised(NoResultsError)
            /\ UNCHANGED <<dirs, files>>
       ELSE LET nested == repeated_fold_results.v
                entered == IterationsEntered(nested)
                saved == IterationsSaved(nested)
                all_subjects_list ==
                    [r \in 1..Len(nested) |-> Concat(SubjectsList(nested[r]))]
                all_results_list ==
                    [r \in 1..Len(nested) |-> IterationMeanResults(nested[r])]
            IN  /\ dirs' = dirs \cup (IF entered = 0 THEN {} ELSE {Dir(-1, FALSE)})
                                \cup {Dir(r - 1, f) : r \in 1..entered, f \in BOOLEAN}
                /\ IF saved < Len(nested) \/ nested = <<>>
                   THEN /\ files' = IterationsFiles(nested, saved) @@ files
                        /\ save_ret' = Raised(ConcatError)
                   ELSE /\ files' = (IterationsFiles(nested, saved)
                                     @@ TableFiles(-1, Concat(all_subjects_list),
                                                   Concat(all_results_list)))
                                    @@ files
                        /\ save_ret' = SaveReturned
    /\ UNCHANGED <<instance_vars, result_vars, model_vars, cv, pc, frame, async_result,
                   evaluate_calls, apply_calls, ret, ncalls>>

\* the files of iteration-<r>/ of a repeated split, lines 270-291
SplitFiles(r, fr) == TableFiles(r, SubjectsDf(fr), ResultsDf(fr))

RECURSIVE SplitsFiles(_, _)
\* the files of the first n iterations of a repeated split
SplitsFiles(results, n) ==
    IF n = 0 THEN [p \in {} |-> <<>>]
    ELSE SplitFiles(n - 1, results[n]) @@ SplitsFiles(results, n - 1)

\* RepeatedSplit.save_results(output_dir), lines 230-305
RepeatedSplitSaveResults ==
    /\ cls = "RepeatedSplit"
    /\ pc = "idle"
    /\ nsaves < MaxSaves
    /\ nsaves' = nsaves + 1
    /\ IF IsNone(split_results)
       THEN /\ save_ret' = Raised(NoResultsError)
            /\ UNCHANGED <<dirs, files>>
       ELSE LET results == split_results.v
                all_results_list ==
                    [r \in 1..Len(results) |-> MeanResults(ResultsDf(results[r]))]
            IN  IF results = <<>>
                THEN /\ save_ret' = Raised(ConcatError)
                     /\ UNCHANGED <<dirs, files>>
                ELSE /\ dirs' = dirs \cup {Dir(-1, FALSE)}
                                     \cup {Dir(r - 1, FALSE) : r \in 1..Len(results)}
                     /\ files' = (SplitsFiles(results, Len(results))
                                  @@ TableFiles(-1, Concat(SubjectsList(results)),
                                                Concat(all_results_list)))
                                 @@ files
                     /\ save_ret' = SaveReturned
    /\ UNCHANGED <<instance_vars, result_vars, model_vars, cv, pc, frame, async_result,
                   evaluate_calls, apply_calls, ret, ncalls>>

\* ------------------------------------------------------------ specification

Next ==
    \/ StartTask
    \/ \E k \in Running : FinishTaskOk(k)
    \/ \E k \in Running : FinishTaskRaise(k)
    \/ Join
    \/ \E n_folds \in 1..MaxFolds, n_threads \in 1..MaxThreads :
           KFoldValidateRefused(n_folds, n_threads)
    \/ \E n_folds \in 1..MaxFolds, n_threads \in 1..MaxThreads :
           KFoldValidate(n_folds, n_threads)
    \/ KFoldDispatch
    \/ KFoldClose
    \/ KFoldGet
    \/ KFoldGetRaises
    \/ KFoldApply
    \/ \E n_iterations \in 0..MaxIter, n_folds \in 1..MaxFolds, n_threads \in 1..MaxThreads :
           RepeatedKFoldValidate(n_iterations, n_folds, n_threads)
    \/ RepeatedKFoldIterationRefused
    \/ RepeatedKFoldIteration
    \/ RepeatedKFoldDispatch
    \/ RepeatedKFoldClose
    \/ RepeatedKFoldGet
    \/ RepeatedKFoldGetRaises
    \/ RepeatedKFoldApply
    \/ \E n_threads \in 1..MaxThreads : RepeatedSplitValidate(n_threads)
    \/ RepeatedSplitDispatch
    \/ RepeatedSplitClose
    \/ RepeatedSplitGet
    \/ RepeatedSplitGetRaises
    \/ RepeatedSplitApply
    \/ KFoldSaveResults
    \/ RepeatedKFoldSaveResults
    \/ RepeatedSplitSaveResults

Spec == Init /\ [][Next]_vars

\* ------------------------------------------------------------- termination
\* One validate() call, the first of the instance, with evaluate calls that may
\* never terminate, under fair scheduling: the caller's thread and the pool's
\* workers keep running, and an evaluate call that does not hang terminates.

\* the tasks whose evaluate call never terminates
Hung == {k \in 1..Len(async_result) : "hangs" \in DOMAIN async_result[k]}

\* the evaluate call of a running task turns out never to terminate: the task
\* stays running and keeps its worker
HangTask(k) ==
    /\ k \in Running \ Hung
    /\ async_result' = [async_result EXCEPT ![k] = @ @@ [hangs |-> TRUE]]
    /\ UNCHANGED <<instance_vars, result_vars, model_vars, cv, pc, frame, evaluate_calls,
                   apply_calls, ret, ncalls, fs_vars>>

\* the evaluate call of a running task that does not hang returns or raises
EvaluateTerminates ==
    \E k \in Running \ Hung : FinishTaskOk(k) \/ FinishTaskRaise(k)

\* the caller's thread takes its next step inside validate()
CallerStep ==
    \/ Join
    \/ KFoldDispatch
    \/ KFoldClose
    \/ KFoldGet
    \/ KFoldGetRaises
    \/ KFoldApply
    \/ RepeatedKFoldIterationRefused
    \/ RepeatedKFoldIteration
    \/ RepeatedKFoldDispatch
    \/ RepeatedKFoldClose
    \/ RepeatedKFoldGet
    \/ RepeatedKFoldGetRaises
    \/ RepeatedKFoldApply
    \/ RepeatedSplitDispatch
    \/ RepeatedSplitClose
    \/ RepeatedSplitGet
    \/ RepeatedSplitGetRaises
    \/ RepeatedSplitApply

\* the first validate() call of the instance
FirstValidate ==
    /\ ncalls = 0
    /\ \/ \E n_folds \in 1..MaxFolds, n_threads \in 1..MaxThreads :
              KFoldValidateRefused(n_folds, n_threads)
       \/ \E n_folds \in 1..MaxFolds, n_threads \in 1..MaxThreads :
              KFoldValidate(n_folds, n_threads)
       \/ \E n_iterations \in 0..MaxIter, n_folds \in 1..MaxFolds, n_threads \in 1..MaxThreads :
              RepeatedKFoldValidate(n_iterations, n_folds, n_threads)
       \/ \E n_threads \in 1..MaxThreads : RepeatedSplitValidate(n_threads)

NextFair ==
    \/ FirstValidate
    \/ CallerStep
    \/ StartTask
    \/ EvaluateTerminates
    \/ \E k \in Running : HangTask(k)

\* fair scheduling of the caller's thread and of the workers; an evaluate call
\* that does not hang terminates
Fairness ==
    /\ WF_vars(CallerStep)
    /\ WF_vars(StartTask)
    /\ WF_vars(EvaluateTerminates)

SpecFair == Init /\ [][NextFair]_vars /\ Fairness

\* ------------------------------------------------------------ the resampler
\* The content of the partitions: what StratifiedKFold(n_splits=n_folds,
\* shuffle=True).split(np.zeros(len(y)), y) yields for a label vector y.
\* (scikit-learn: _make_test_folds gives every sample the number of the fold it
\* is tested in, class by class; split yields, for each fold, the samples of
\* the other folds as train indices and the samples of the fold as test indices.)

\* the class labels
Labels == {0, 1}

\* the label vectors a caller passes
LabelVectors == UNION {[1..n -> Labels] : n \in 1..MaxSamples}

\* np.bincount: the number of samples of class c
ClassCount(labels, c) == Cardinality({j \in 1..Len(labels) : labels[j] = c})

\* the classes that occur in the label vector
ClassesOf(labels) == {labels[j] : j \in 1..Len(labels)}

\* a StratifiedKFold that refuses as soon as one class has fewer than n_splits members
RefusesAnySmallClass(labels, n_splits) ==
    \/ n_splits < 2
    \/ \E c \in ClassesOf(labels) : n_splits > ClassCount(labels, c)

\* StratifiedKFold refuses with a ValueError: n_splits < 2, or n_splits greater
\* than the number of members of every class
StratifiedKFoldRefuses(labels, n_splits) ==
    \/ n_splits < 2
    \/ \A c \in ClassesOf(labels) : n_splits > ClassCount(labels, c)

\* KFold's fold sizes for m samples: m // n_splits each, the first m % n_splits one more
FoldSize(m, n_splits, f) == (m \div n_splits) + (IF f < m % n_splits THEN 1 ELSE 0)

Max(a, b) == IF a >= b THEN a ELSE b

\* _make_test_folds: the test fold of every sample.  Each class is split by a
\* shuffled KFold over max(count, n_splits) positions, cut to the class's count:
\* fold f tests at most FoldSize positions of the class, and every sample of
\* the class is tested in one fold.  The shuffle makes every such assignment possible.
MakeTestFolds(labels, n_splits) ==
    {tf \in [1..Len(labels) -> 0..(n_splits - 1)] :
        \A c \in ClassesOf(labels), f \in 0..(n_splits - 1) :
            Cardinality({j \in 1..Len(labels) : labels[j] = c /\ tf[j] = f})
                <= FoldSize(Max(ClassCount(labels, c), n_splits), n_splits, f)}

\* a split that tests in fold f the samples of the folds up to f
TrainTestUpTo(tf, f) ==
    [train |-> {j - 1 : j \in {k \in DOMAIN tf : tf[k] > f}},
     test |-> {j - 1 : j \in {k \in DOMAIN tf : tf[k] <= f}}]

\* split's (train_index, test_index) of fold f: indices[~test_mask], indices[test_mask]
\* with test_mask = (test_folds == f); indices count from 0
TrainTest(tf, f) ==
    [train |-> {j - 1 : j \in {k \in DOMAIN tf : tf[k] # f}},
     test |-> {j - 1 : j \in {k \in DOMAIN tf : tf[k] = f}}]

\* list(skf.split(np.zeros(len(y)), y)) for the test folds tf
SplitList(tf, n_splits) == [i \in 1..n_splits |-> TrainTest(tf, i - 1)]

\* KFoldCV.validate, lines 24-25, when StratifiedKFold refuses: self._cv is not assigned
KFoldResampleRefused(n_folds) ==
    /\ cls = "KFoldCV"
    /\ StratifiedKFoldRefuses(y, n_folds)
    /\ frame' = [NoFrame EXCEPT !.n_folds = n_folds]
    /\ ret' = Raised(ValueErrorSplits)
    /\ UNCHANGED <<instance_vars, result_vars, model_vars, cv, pc, async_result,
                   evaluate_calls, apply_calls, ncalls, fs_vars>>

\* KFoldCV.validate, lines 24-25: self._cv = list(skf.split(np.zeros(len(y)), y))
KFoldResample(n_folds) ==
    /\ cls = "KFoldCV"
    /\ ~StratifiedKFoldRefuses(y, n_folds)
    /\ \E tf \in MakeTestFolds(y, n_folds) : cv' = Some(SplitList(tf, n_folds))
    /\ frame' = [NoFrame EXCEPT !.n_folds = n_folds]
    /\ ret' = NoReturn
    /\ UNCHANGED <<instance_vars, result_vars, model_vars, pc, async_result,
                   evaluate_calls, apply_calls, ncalls, fs_vars>>

\* RepeatedKFoldCV.validate, line 100: self._cv = []
RepeatedKFoldResampleStart(n_iterations, n_folds) ==
    /\ cls = "RepeatedKFoldCV"
    /\ cv' = Some(<<>>)
    /\ frame' = [NoFrame EXCEPT !.n_folds = n_folds, !.n_iterations = n_iterations]
    /\ ret' = NoReturn
    /\ UNCHANGED <<instance_vars, result_vars, model_vars, pc, async_result,
                   evaluate_calls, apply_calls, ncalls, fs_vars>>

\* RepeatedKFoldCV.validate, lines 103-104, when StratifiedKFold refuses
RepeatedKFoldResampleRefused ==
    /\ cls = "RepeatedKFoldCV"
    /\ ~IsNone(cv)
    /\ ret.kind = "none"
    /\ Len(cv.v) < frame.n_iterations
    /\ StratifiedKFoldRefuses(y, frame.n_folds)
    /\ ret' = Raised(ValueErrorSplits)
    /\ UNCHANGED <<instance_vars, result_vars, model_vars, cv, pc, frame, async_result,
                   evaluate_calls, apply_calls, ncalls, fs_vars>>

\* RepeatedKFoldCV.validate, lines 103-104:
\* self._cv.append(list(skf.split(np.zeros(len(y)), y))), once per iteration
RepeatedKFoldResample ==
    /\ cls = "RepeatedKFoldCV"
    /\ ~IsNone(cv)
    /\ ret.kind = "none"
    /\ Len(cv.v) < frame.n_iterations
    /\ ~StratifiedKFoldRefuses(y, frame.n_folds)
    /\ \E tf \in MakeTestFolds(y, frame.n_folds) :
           cv' = Some(Append(cv.v, SplitList(tf, frame.n_folds)))
    /\ UNCHANGED <<instance_vars, result_vars, model_vars, pc, frame, async_result,
                   evaluate_calls, apply_calls, ret, ncalls, fs_vars>>

\* The content of the partitions of a repeated split: what
\* StratifiedShuffleSplit(n_splits, test_size).split(np.zeros(len(y)), y) yields.
\* (scikit-learn: _validate_shuffle_split gives the sizes of the train and test
\* sets; for every split _approximate_mode shares them among the classes, and
\* every class gives the first samples of a permutation of its samples to the
\* train set and the following ones to the test set.)

RECURSIVE SumOver(_, _)
\* the sum of f over the set S
SumOver(f, S) ==
    IF S = {} THEN 0
    ELSE LET c == CHOOSE c \in S : TRUE IN f[c] + SumOver(f, S \ {c})

\* np.ceil(test_size * n_samples) for a float test_size, test_size for an int
NTest(n_samples, test_size) ==
    IF test_size.type = "float"
    THEN -FloorDiv(-(test_size.val.num * n_samples), test_size.val.den)
    ELSE test_size.val.num

\* train_size is None: the samples that are not test samples
NTrain(n_samples, test_size) == n_samples - NTest(n_samples, test_size)

\* StratifiedShuffleSplit refuses with a ValueError: a float test_size >= 1, an
\* int test_size >= n_samples, a class of one member, or fewer train or test
\* samples than classes
StratifiedShuffleSplitRefuses(labels, test_size) ==
    \/ test_size.type = "float" /\ test_size.val.num >= test_size.val.den
    \/ test_size.type = "int" /\ test_size.val.num >= Len(labels)
    \/ \E c \in ClassesOf(labels) : ClassCount(labels, c) < 2
    \/ NTrain(Len(labels), test_size) < Cardinality(ClassesOf(labels))
    \/ NTest(Len(labels), test_size) < Cardinality(ClassesOf(labels))

ValueErrorShuffle == [type |-> "ValueError", raised_by |-> "StratifiedShuffleSplit"]

\* _approximate_mode(class_counts, n_draws, rng): n_draws samples shared among
\* the classes in proportion to their counts; the samples left after rounding
\* down go to the classes of largest remainder, ties broken at random
ApproximateMode(class_counts, n_draws) ==
    LET cs == DOMAIN class_counts
        total == SumOver(class_counts, cs)
        floored == [c \in cs |-> (n_draws * class_counts[c]) \div total]
        remainder == [c \in cs |-> (n_draws * class_counts[c]) % total]
        need_to_add == n_draws - SumOver(floored, cs)
    IN  {[c \in cs |-> floored[c] + (IF c \in S THEN 1 ELSE 0)] :
            S \in {T \in SUBSET cs :
                      /\ Cardinality(T) = need_to_add
                      /\ \A c \in T, d \in cs \ T : remainder[c] >= remainder[d]}}

\* rng.permutation of the samples of class c: positions 1..N of the label vector
ClassPermutations(labels, c) ==
    LET members == {j \in 1..Len(labels) : labels[j] = c}
    IN  {perm \in [1..Cardinality(members) -> members] :
            \A a, b \in DOMAIN perm : perm[a] = perm[b] => a = b}

\* a split whose test slice starts one sample early
ShuffleTrainTestOverlap(perm, n_i, t_i) ==
    [train |-> UNION {{perm[c][k] - 1 : k \in 1..n_i[c]} : c \in DOMAIN perm},
     test |-> UNION {{perm[c][k] - 1 :
                         k \in (n_i[c]..(n_i[c] + t_i[c])) \cap DOMAIN perm[c]} :
                     c \in DOMAIN perm}]

\* train: perm_indices_class_i[:n_i[i]] of every class;
\* test: perm_indices_class_i[n_i[i]:n_i[i] + t_i[i]] of every class; indices count from 0
ShuffleTrainTest(perm, n_i, t_i) ==
    [train |-> UNION {{perm[c][k] - 1 : k \in 1..n_i[c]} : c \in DOMAIN perm},
     test |-> UNION {{perm[c][k] - 1 : k \in (n_i[c] + 1)..(n_i[c] + t_i[c])} :
                     c \in DOMAIN perm}]

\* the (train_index, test_index) pairs one iteration of _iter_indices can yield
ShuffleSplits(labels, test_size) ==
    LET cs == ClassesOf(labels)
        class_counts == [c \in cs |-> ClassCount(labels, c)]
        n_train == NTrain(Len(labels), test_size)
        n_test == NTest(Len(labels), test_size)
        perms == {perm \in [cs -> UNION {ClassPermutations(labels, c) : c \in cs}] :
                     \A c \in cs : perm[c] \in ClassPermutations(labels, c)}
    IN  UNION {UNION {{ShuffleTrainTest(perm, n_i, t_i) : perm \in perms} :
                      t_i \in ApproximateMode([c \in cs |-> class_counts[c] - n_i[c]], n_test)} :
               n_i \in ApproximateMode(class_counts, n_train)}

\* RepeatedSplit.validate, lines 209-210, when StratifiedShuffleSplit refuses:
\* self._cv is not assigned
RepeatedSplitResampleRefused ==
    /\ cls = "RepeatedSplit"
    /\ StratifiedShuffleSplitRefuses(y, self_test_size.v)
    /\ frame' = NoFrame
    /\ ret' = Raised(ValueErrorShuffle)
    /\ UNCHANGED <<instance_vars, result_vars, model_vars, cv, pc, async_result,
                   evaluate_calls, apply_calls, ncalls, fs_vars>>

\* RepeatedSplit.validate, lines 209-210: self._cv = list(splits.split(np.zeros(len(y)), y)),
\* self._n_iterations splits; the first call of the instance
RepeatedSplitResample ==
    /\ cls = "RepeatedSplit"
    /\ IsNone(cv)
    /\ ~StratifiedShuffleSplitRefuses(y, self_test_size.v)
    /\ \E splits \in [1..self_n_iterations -> ShuffleSplits(y, self_test_size.v)] :
           cv' = Some(splits)
    /\ frame' = NoFrame
    /\ ret' = NoReturn
    /\ UNCHANGED <<instance_vars, result_vars, model_vars, pc, async_result,
                   evaluate_calls, apply_calls, ncalls, fs_vars>>

\* the label vectors a caller passes to RepeatedSplit.validate
SplitLabelVectors == UNION {[1..n -> Labels] : n \in 1..MaxSplitSamples}

InitResample ==
    /\ Constructed
    /\ y \in (IF cls = "RepeatedSplit" THEN SplitLabelVectors ELSE LabelVectors)

NextResample ==
    \/ \E n_folds \in 1..MaxFolds : KFoldResampleRefused(n_folds)
    \/ \E n_folds \in 1..MaxFolds : KFoldResample(n_folds)
    \/ \E n_iterations \in 0..MaxIter, n_folds \in 1..MaxFolds :
           RepeatedKFoldResampleStart(n_iterations, n_folds)
    \/ RepeatedKFoldResampleRefused
    \/ RepeatedKFoldResample
    \/ RepeatedSplitResampleRefused
    \/ RepeatedSplitResample

\* the resampler alone, on every label vector
SpecResample == InitResample /\ [][NextResample]_vars

\* ------------------------------------------------- aggregation and variance
\* save_results() and compute_variance() read the stored FoldResults only.
\* They are specified on every collection validate() can have stored, the
\* classifier being any: the collection is drawn, the other variables are
\* left as __init__ sets them.

\* (y, y_hat, y_index) of a test set: one error among two samples, one among
\* one, none among two
DrawnSamples ==
    {[y |-> <<0, 1>>, y_hat |-> <<0, 0>>, y_index |-> <<0, 2>>],
     [y |-> <<1>>, y_hat |-> <<0>>, y_index |-> <<1>>]}

\* metric values: a different value in every column; others with sensitivity
\* and ppv missing
DrawnMetrics ==
    {[balanced_accuracy |-> Frac(1, 8), auc |-> Frac(2, 8), accuracy |-> Frac(3, 8),
      sensitivity |-> Frac(4, 8), specificity |-> Frac(5, 8), ppv |-> Frac(6, 8),
      npv |-> Frac(7, 8)],
     [balanced_accuracy |-> Frac(1, 1), auc |-> Frac(0, 1), accuracy |-> Frac(1, 4),
      sensitivity |-> NaN, specificity |-> Frac(1, 1), ppv |-> NaN,
      npv |-> Frac(1, 3)]}

\* the FoldResults evaluate returns
DrawnFoldResults ==
    {FoldResult(sm.y, sm.y_hat, sm.y_index, [c \in EvaluationKeys |-> mt[c]], mt.auc) :
        sm \in DrawnSamples, mt \in DrawnMetrics}

\* the lists of at most n FoldResults
DrawnLists(n) == UNION {[1..k -> DrawnFoldResults] : k \in 0..n}

RECURSIVE DrawnIterations(_, _)
\* the lists of k lists of FoldResults, of at most n FoldResults in all
DrawnIterations(k, n) ==
    IF k = 0 THEN {<<>>}
    ELSE UNION {{<<l>> \o rest : rest \in DrawnIterations(k - 1, n - Len(l))} :
                l \in DrawnLists(n)}

\* self._repeated_fold_results: at most MaxIter iterations, MaxStored FoldResults in all
DrawnNested == UNION {DrawnIterations(k, MaxStored) : k \in 0..MaxIter}

\* StratifiedShuffleSplit takes the test_size for some label vector: validate()
\* stores FoldResults only then
ShuffleSplitTakes(test_size) ==
    test_size.type = "float" => test_size.val.num < test_size.val.den

ZeroDivisionError == [type |-> "ZeroDivisionError", raised_by |-> "compute_variance"]

\* _compute_average_test_error(y_list, yhat_list), line 359:
\* len(np.where(y_list != yhat_list)[0])/len(y_list), a division of two ints
ComputeAverageTestError(y_list, yhat_list) ==
    FloorDiv(Cardinality({k \in 1..Len(y_list) : y_list[k] # yhat_list[k]}), Len(y_list))

\* np.linalg.norm(column - average)**2: the sum of the squared differences
SquaredNorm(xs, average) ==
    SumSeq([k \in 1..Len(xs) |-> Times(Minus(xs[k], average), Minus(xs[k], average))])

\* test_size/(1 - test_size), line 353: a float division for a float
\* test_size, a division of two ints for an int test_size
TestSizeRatio(test_size) ==
    IF test_size.type = "float"
    THEN TrueDiv(test_size.val, Minus(Frac(1, 1), test_size.val))
    ELSE Frac(FloorDiv(test_size.val.num, 1 - test_size.val.num), 1)

\* 1/num_split, line 353: a division of two ints
OneOverNumSplit(num_split) == Frac(FloorDiv(1, num_split), 1)

\* RepeatedSplit.compute_variance(), lines 340-355
ComputeVariance ==
    /\ cls = "RepeatedSplit"
    /\ pc = "idle"
    /\ LET num_split == Len(split_results.v)
           errors == [i \in 1..num_split |->
                         Frac(ComputeAverageTestError(split_results.v[i].y,
                                                      split_results.v[i].y_hat), 1)]
           average_test_error == Mean(errors)
           \* a float divided by the int 0 is nan or inf, with a warning
           resampled_t == IF num_split = 1 THEN NaN
                          ELSE TrueDiv(SquaredNorm(errors, average_test_error),
                                       Frac(num_split - 1, 1))
       IN  /\ test_error_split' = errors
           /\ self_resampled_t' = Some(resampled_t)
           /\ IF num_split = 0 \/ Minus(Frac(1, 1), self_test_size.v.val) = Frac(0, 1)
              THEN /\ variance_ret' = Raised(ZeroDivisionError)
                   /\ UNCHANGED self_corrected_resampled_t
              ELSE LET corrected == Times(Plus(OneOverNumSplit(num_split),
                                               TestSizeRatio(self_test_size.v)),
                                          resampled_t)
                   IN  /\ self_corrected_resampled_t' = Some(corrected)
                       /\ variance_ret' = [kind |-> "returned", resampled_t |-> resampled_t,
                                           corrected_resampled_t |-> corrected]
    /\ UNCHANGED <<cls, y, self_n_iterations, self_test_size, result_vars, model_vars, cv, pc,
                   frame, async_result, evaluate_calls, apply_calls, ret, ncalls, fs_vars>>

InitAggregate ==
    /\ ConstructedButResults
    /\ y = <<>>
    /\ fold_results \in (IF cls = "KFoldCV" THEN {Some(l) : l \in DrawnLists(MaxStored)}
                         ELSE {None})
    /\ repeated_fold_results \in (IF cls = "RepeatedKFoldCV" THEN {Some(n) : n \in DrawnNested}
                                  ELSE {None})
    /\ split_results \in (IF cls = "RepeatedSplit" THEN {Some(l) : l \in DrawnLists(MaxStored)}
                          ELSE {None})
    /\ (cls = "RepeatedSplit" /\ split_results.v # <<>>) => ShuffleSplitTakes(self_test_size.v)

NextAggregate ==
    \/ KFoldSaveResults
    \/ RepeatedKFoldSaveResults
    \/ RepeatedSplitSaveResults
    \/ ComputeVariance

\* save_results() and compute_variance() alone, on every stored collection
SpecAggregate == InitAggregate /\ [][NextAggregate]_vars

\* ------------------------------------------------------- what the claims read

Range(s) == {s[k] : k \in 1..Len(s)}

\* the tasks of the pool that have not finished: queued or running
Unfinished == Queued \cup Running

\* the FoldResults the instance stores, in partition order (iteration-major)
StoredResults ==
    CASE cls = "KFoldCV" -> fold_results.v
      [] cls = "RepeatedSplit" -> split_results.v
      [] OTHER -> Flatten(repeated_fold_results.v)

\* the PartitionSet self._cv of the latest call, in partition order (iteration-major)
PartitionSet ==
    IF IsNone(cv) THEN <<>>
    ELSE IF cls = "RepeatedKFoldCV" THEN Flatten(cv.v) ELSE cv.v

\* the number of partitions the arguments of the call in progress ask for
PartitionsAsked ==
    CASE cls = "KFoldCV" -> frame.n_folds
      [] cls = "RepeatedSplit" -> self_n_iterations
      [] OTHER -> frame.n_iterations * frame.n_folds

\* the latest validate() call has returned
ValidateReturned == pc = "idle" /\ ret.kind = "returned"

\* the latest validate() call has failed on the exception of an evaluate task
ValidateFailedOnTask == pc = "idle" /\ ret.kind = "raised" /\ ret.exc.raised_by = "evaluate"

\* the tasks of the latest call whose evaluate raised
FailedTasks == {k \in 1..Len(async_result) : async_result[k].st = "raised"}

\* the partition index an exception names, -1 when it names none
PartitionNamedBy(exc) == IF "partition" \in DOMAIN exc THEN exc.partition ELSE -1

\* ------------------------------------------------------------------ claims

\* C1: when KFoldCV.validate or RepeatedSplit.validate returns, the i-th element
\* of the returned FoldResult sequence is the value of evaluate on the i-th
\* partition self._cv[i], whatever the order the tasks completed in.
C1_OrderPreservingGather ==
    (ValidateReturned /\ cls \in {"KFoldCV", "RepeatedSplit"}) =>
        \A i \in 1..Len(cv.v) :
            /\ i <= Len(ret.results)
            /\ ret.results[i] = Evaluate(cv.v[i])

\* C2: the join barrier.  Once join() has returned (the caller collects, applies
\* or is back from validate()) no task of the call is queued or running; no
\* FoldResult of the call in progress is stored and apply_best_parameters has
\* not been called while a task is queued or running.
C2_JoinBarrier ==
    /\ pc \in {"collect", "idle"} => Unfinished = {}
    /\ apply_calls # <<>> => Unfinished = {}
    /\ (\E fr \in Range(StoredResults) : fr.part.call = ncalls) => Unfinished = {}

\* C2 happens: a call has returned whose tasks outnumbered the workers
C2_Witness ==
    /\ ValidateReturned
    /\ Len(async_result) > frame.n_threads
    /\ Len(StoredResults) >= 2

\* C3: a validate() call that returns has called apply_best_parameters exactly
\* once, on the complete FoldResult collection of that call: one FoldResult per
\* partition of the call, in partition order, nothing else; it is not called
\* while a task is queued or running, nor when validate() fails on a task.
C3_ApplyBestParametersOnce ==
    /\ ValidateReturned =>
           /\ Len(apply_calls) = 1
           /\ apply_calls[1] = [k \in 1..Len(PartitionSet) |-> Evaluate(PartitionSet[k])]
    /\ apply_calls # <<>> => Unfinished = {}
    /\ ValidateFailedOnTask => apply_calls = <<>>

\* C4: one evaluate call per partition of the PartitionSet and none else.  No
\* evaluate call is repeated, each is on a partition of self._cv, and once the
\* join has returned there are as many calls as partitions asked for: n_folds,
\* n_iterations * n_folds, n_iterations.
C4_OneEvaluatePerPartition ==
    /\ \A j, k \in 1..Len(evaluate_calls) : evaluate_calls[j] = evaluate_calls[k] => j = k
    /\ Range(evaluate_calls) \subseteq Range(PartitionSet)
    /\ (pc = "collect" \/ ValidateReturned \/ ValidateFailedOnTask) =>
           /\ Len(evaluate_calls) = PartitionsAsked
           /\ Len(PartitionSet) = PartitionsAsked
           /\ Range(evaluate_calls) = Range(PartitionSet)

\* C4 happens: a repeated k-fold call of two iterations of two folds has returned
C4_Witness ==
    /\ cls = "RepeatedKFoldCV"
    /\ ValidateReturned
    /\ frame.n_iterations = 2
    /\ frame.n_folds = 2
    /\ Len(evaluate_calls) = 4

\* C5: at most n_threads evaluate calls are in progress, whatever the number
\* of partitions.
C5_BoundedConcurrency == Cardinality(Running) <= frame.n_threads

\* C5 happens: every worker is busy and a dispatched partition waits
C5_Witness ==
    /\ Cardinality(Running) = frame.n_threads
    /\ Queued # {}

\* C6: when validate() fails on the exception of an evaluate task, the failure
\* it raises names a partition whose evaluate raised.
C6_FailureNamesPartition ==
    ValidateFailedOnTask =>
        \E k \in FailedTasks : PartitionNamedBy(ret.exc) = k - 1

\* C7: after validate() has failed on the exception of an evaluate task, the
\* instance stores no FoldResult of that call, and a save_results() that follows
\* a failed first call writes no table.
C7_AllOrNothing ==
    ValidateFailedOnTask =>
        /\ \A fr \in Range(StoredResults) : fr.part.call # ncalls
        /\ ncalls = 1 => save_ret # SaveReturned

\* C8: save_results() before any validate() fails with the 'No results to save'
\* error and has created no directory and written no file.
C8_SaveBeforeValidate ==
    (ncalls = 0 /\ nsaves > 0) =>
        /\ save_ret = Raised(NoResultsError)
        /\ dirs = {}
        /\ DOMAIN files = {}

\* C9: when KFoldCV.validate or RepeatedSplit.validate returns, the returned and
\* stored FoldResult collection holds one FoldResult per partition of this
\* call's PartitionSet and none of an earlier call.
C9_NoResultSurvives ==
    (ValidateReturned /\ cls \in {"KFoldCV", "RepeatedSplit"}) =>
        /\ ret.results = StoredResults
        /\ Len(StoredResults) = Len(cv.v)
        /\ \A fr \in Range(StoredResults) : fr.part.call = ncalls

\* the test sets of a list of partitions are pairwise disjoint and their union
\* is every sample index 0 .. N - 1
ExactPartition(parts) ==
    /\ \A a, b \in 1..Len(parts) : a # b => parts[a].test \cap parts[b].test = {}
    /\ UNION {parts[a].test : a \in 1..Len(parts)} = 0..(Len(y) - 1)

\* C10: the partitions KFoldCV.validate has built, and those of every iteration
\* RepeatedKFoldCV.validate has built, are n_folds partitions with pairwise
\* disjoint test sets whose union is [0, N): every sample index is in exactly
\* one test set.
C10_KFoldExactPartition ==
    /\ (cls = "KFoldCV" /\ ~IsNone(cv) /\ ret.kind = "none") =>
           /\ Len(cv.v) = frame.n_folds
           /\ ExactPartition(cv.v)
    /\ (cls = "RepeatedKFoldCV" /\ ~IsNone(cv) /\ ret.kind = "none") =>
           \A r \in 1..Len(cv.v) :
               /\ Len(cv.v[r]) = frame.n_folds
               /\ ExactPartition(cv.v[r])

\* C10 happens: three samples of two classes are split in two folds, one of
\* which tests two samples
C10_Witness ==
    /\ cls = "KFoldCV"
    /\ ~IsNone(cv)
    /\ Len(y) = 3
    /\ ClassesOf(y) = Labels
    /\ \E a \in 1..Len(cv.v) : Cardinality(cv.v[a].test) = 2

\* train and test are disjoint sets of sample indices of [0, n) and together
\* hold at most n indices
TrainTestWellFormed(p, n) ==
    /\ p.train \cap p.test = {}
    /\ p.train \cup p.test \subseteq 0..(n - 1)
    /\ Cardinality(p.train) + Cardinality(p.test) <= n

\* C11: in every partition of the PartitionSet of any of the three classes,
\* the one evaluate is given, the train and the test index sets are disjoint
\* subsets of [0, N) and hold together at most N indices.
C11_TrainTestDisjoint ==
    \A p \in Range(PartitionSet) : TrainTestWellFormed(p, Len(y))

\* C11 happens: a repeated split of four samples of two classes has built two
\* partitions of two test samples, one of each class
C11_Witness ==
    /\ cls = "RepeatedSplit"
    /\ ~IsNone(cv)
    /\ Len(cv.v) = 2
    /\ Len(y) = 4
    /\ \A p \in Range(cv.v) : {y[j + 1] : j \in p.test} = Labels /\ Cardinality(p.test) = 2

\* some class of the label vector has fewer than n members, every class has
SomeClassSmaller(n) == \E c \in ClassesOf(y) : ClassCount(y, c) < n
EveryClassSmaller(n) == \A c \in ClassesOf(y) : ClassCount(y, c) < n

\* a k-fold validate() has been called and has built partitions
KFoldPartitionsBuilt ==
    /\ frame.n_folds # 0
    /\ \/ cls = "KFoldCV" /\ ret.kind = "none"
       \/ cls = "RepeatedKFoldCV" /\ cv.v # <<>>

NumSplit == Len(split_results.v)

\* the fraction of the test samples of a FoldResult whose prediction differs
\* from the label
ErrorFraction(fr) ==
    Frac(Cardinality({k \in 1..Len(fr.y) : fr.y[k] # fr.y_hat[k]}), Len(fr.y))

\* the error fractions of the stored partitions, in partition order
ErrorFractions == [i \in 1..NumSplit |-> ErrorFraction(split_results.v[i])]

\* a <= b on numbers
AtMost(a, b) == a.num * b.den <= b.num * a.den

\* the sample variance of a list of two numbers or more: the sum of the squared
\* differences to the mean over the count minus one
SampleVariance(xs) ==
    LET mean == TrueDiv(SumSeq(xs), Frac(Len(xs), 1))
    IN  TrueDiv(SumSeq([k \in 1..Len(xs) |-> Times(Minus(xs[k], mean), Minus(xs[k], mean))]),
                Frac(Len(xs) - 1, 1))

\* compute_variance() has been called, has returned
VarianceCalled == variance_ret.kind # "none"
VarianceReturned == variance_ret.kind = "returned"

\* C13: the error of every partition that compute_variance() uses is the number
\* of test samples whose y_hat differs from y over the number of test samples,
\* a value of [0, 1]: one difference among four (two) samples gives 1/4 (1/2).
C13_AverageTestError ==
    VarianceCalled =>
        \A i \in 1..NumSplit :
            /\ test_error_split[i] = ErrorFractions[i]
            /\ AtMost(Frac(0, 1), test_error_split[i])
            /\ AtMost(test_error_split[i], Frac(1, 1))

\* C14: for J >= 2 the second scalar compute_variance() returns is
\* (1/J + test_size/(1 - test_size)) times the first, 1/J being the reciprocal of J.
C14_CorrectedVariance ==
    (VarianceReturned /\ NumSplit >= 2) =>
        variance_ret.corrected_resampled_t =
            Times(Plus(Frac(1, NumSplit),
                       TrueDiv(self_test_size.v.val, Minus(Frac(1, 1), self_test_size.v.val))),
                  variance_ret.resampled_t)

\* C15: for J >= 2 the first scalar compute_variance() returns is the sample
\* variance, of denominator J - 1, of the J partitions' error fractions.
C15_SampleVariance ==
    (VarianceReturned /\ NumSplit >= 2) =>
        variance_ret.resampled_t = SampleVariance(ErrorFractions)

\* C16: whenever J <= 1 or test_size >= 1, compute_variance() fails or returns
\* a scalar that is not finite: it never returns two finite numbers.
C16_NoFiniteVariance ==
    (VarianceCalled /\ (NumSplit <= 1 \/ AtMost(Frac(1, 1), self_test_size.v.val))) =>
        \/ variance_ret.kind = "raised"
        \/ IsNaN(variance_ret.resampled_t)
        \/ IsNaN(variance_ret.corrected_resampled_t)

\* the n_iterations of the latest validate() call of a repeated scheme
IterationsAsked == IF cls = "RepeatedSplit" THEN self_n_iterations ELSE frame.n_iterations

\* C17: a validate() call with n_iterations < 1 (RepeatedKFoldCV.validate(y,
\* n_iterations=0), RepeatedSplit built with n_iterations=0) fails: it does not
\* return, and it does not call apply_best_parameters on an empty collection.
C17_RejectsNoIteration ==
    (cls \in {"RepeatedKFoldCV", "RepeatedSplit"} /\ ncalls > 0 /\ IterationsAsked < 1) =>
        /\ ~ValidateReturned
        /\ apply_calls = <<>>

\* the file <name> of output_dir (r = -1) or of output_dir/iteration-<r>, once written
Table(r, name) == files[File(r, FALSE, name, -1)]
Written(r, name) == File(r, FALSE, name, -1) \in DOMAIN files

RECURSIVE SubjectRows(_)
\* the (y, y_hat, y_index) rows of a list of FoldResults: those of the first,
\* sample by sample, then those of the others
SubjectRows(results) ==
    IF results = <<>> THEN <<>>
    ELSE LET fr == Head(results)
         IN  [k \in 1..Len(fr.y) |-> [y |-> fr.y[k], y_hat |-> fr.y_hat[k],
                                      y_index |-> fr.y_index[k]]]
             \o SubjectRows(Tail(results))

RECURSIVE TestSamples(_)
\* the number of test samples of a list of FoldResults
TestSamples(results) ==
    IF results = <<>> THEN 0 ELSE Len(Head(results).y) + TestSamples(Tail(results))

\* C18: the subjects table save_results() writes holds the (y, y_hat, y_index)
\* rows of every stored partition, in partition order (iteration after
\* iteration, fold after fold, for a repeated k-fold, whose iteration-<r>
\* tables hold the rows of iteration r); it has as many rows as the stored
\* partitions have test samples.
C18_SubjectsTable ==
    /\ Written(-1, "subjects.tsv") =>
           /\ Table(-1, "subjects.tsv") = SubjectRows(StoredResults)
           /\ Len(Table(-1, "subjects.tsv")) = TestSamples(StoredResults)
    /\ cls = "RepeatedKFoldCV" =>
           \A r \in 1..Len(repeated_fold_results.v) :
               Written(r - 1, "subjects.tsv") =>
                   Table(r - 1, "subjects.tsv") = SubjectRows(repeated_fold_results.v[r])

\* C18 happens: a repeated k-fold of an iteration of two partitions, of two
\* test samples and of one, and an iteration of one partition is saved
C18_Witness ==
    /\ cls = "RepeatedKFoldCV"
    /\ save_ret = SaveReturned
    /\ Len(repeated_fold_results.v) = 2
    /\ Len(repeated_fold_results.v[1]) = 2
    /\ Len(repeated_fold_results.v[1][1].y) = 2
    /\ Len(repeated_fold_results.v[1][2].y) = 1
    /\ Len(Table(-1, "subjects.tsv")) >= 4

\* the results table is one row per FoldResult of the list, in the order of
\* the list, of the seven metric columns, with the FoldResult's own values
OneRowPerPartition(table, results) ==
    /\ Len(table) = Len(results)
    /\ \A i \in 1..Len(table) :
           /\ DOMAIN table[i] = MetricColumns
           /\ table[i].auc = results[i].auc
           /\ \A c \in MetricColumns \ {"auc"} : table[i][c] = results[i].evaluation[c]

\* C19: the results table of KFoldCV.save_results(), and the results table of
\* every iteration of RepeatedKFoldCV.save_results(), has one row per stored
\* partition, in partition order, of exactly the seven metric columns, each
\* row with the metric values of its partition.
C19_ResultsTable ==
    /\ (cls = "KFoldCV" /\ Written(-1, "results.tsv")) =>
           OneRowPerPartition(Table(-1, "results.tsv"), fold_results.v)
    /\ cls = "RepeatedKFoldCV" =>
           \A r \in 1..Len(repeated_fold_results.v) :
               Written(r - 1, "results.tsv") =>
                   OneRowPerPartition(Table(r - 1, "results.tsv"), repeated_fold_results.v[r])

\* C19 happens: a k-fold of two partitions of different metric values is saved
C19_Witness ==
    /\ cls = "KFoldCV"
    /\ save_ret = SaveReturned
    /\ Len(fold_results.v) = 2
    /\ fold_results.v[1].auc # fold_results.v[2].auc
    /\ Len(Table(-1, "results.tsv")) = 2

\* the entries of a column that are not missing
Present(column) == {k \in 1..Len(column) : ~IsNaN(column[k])}

RECURSIVE SumAt(_, _)
\* the sum of the entries of a column at the positions ks
SumAt(column, ks) ==
    IF ks = {} THEN Frac(0, 1)
    ELSE LET k == CHOOSE k \in ks : TRUE IN Plus(column[k], SumAt(column, ks \ {k}))

\* m is the mean of the entries of the column that are not missing, and is
\* missing when they all are
IsMeanOfPresent(m, column) ==
    IF Present(column) = {} THEN IsNaN(m)
    ELSE /\ ~IsNaN(m)
         /\ Times(m, Frac(Cardinality(Present(column)), 1)) = SumAt(column, Present(column))

\* the directories a mean_results table is written in: -1 is output_dir, r is
\* output_dir/iteration-<r>
MeanResultsDirs == {p.iteration : p \in {q \in DOMAIN files : q.name = "mean_results.tsv"}}

\* C20: the mean_results table KFoldCV.save_results() and
\* RepeatedKFoldCV.save_results() write has one row which holds, in each of the
\* seven metric columns, the mean of the entries of that column of the results
\* table beside it that are not missing: a missing entry beside a present one
\* does not make the mean missing.
C20_NanSkippingMean ==
    cls \in {"KFoldCV", "RepeatedKFoldCV"} =>
        \A r \in MeanResultsDirs :
            /\ Len(Table(r, "mean_results.tsv")) = 1
            /\ DOMAIN Table(r, "mean_results.tsv")[1] = MetricColumns
            /\ \A c \in MetricColumns :
                   IsMeanOfPresent(Table(r, "mean_results.tsv")[1][c],
                                   Column(Table(r, "results.tsv"), c))

\* C20 happens: a k-fold is saved whose sensitivity is missing in one
\* partition and present in another, and the mean is the present value
C20_Witness ==
    /\ cls = "KFoldCV"
    /\ save_ret = SaveReturned
    /\ Len(fold_results.v) = 2
    /\ IsNaN(fold_results.v[1].evaluation.sensitivity)
    /\ ~IsNaN(fold_results.v[2].evaluation.sensitivity)
    /\ Table(-1, "mean_results.tsv")[1].sensitivity = fold_results.v[2].evaluation.sensitivity

\* the metric rows of a list of FoldResults, one row each, in the order of the list
MetricRows(results) ==
    [i \in 1..Len(results) |->
        [c \in MetricColumns |-> IF c = "auc" THEN results[i].auc ELSE results[i].evaluation[c]]]

\* row is the mean, missing values skipped, of every column of the rows
IsMeanRow(row, rows) ==
    /\ DOMAIN row = MetricColumns
    /\ \A c \in MetricColumns : IsMeanOfPresent(row[c], Column(rows, c))

\* C21: two-level aggregation of RepeatedKFoldCV.save_results().  The mean row
\* of every iteration is the mean, missing values skipped, of every column
\* over the fold rows of the iteration; the outer results table has one row per
\* iteration, the mean row of the iteration, in iteration order; the outer
\* mean row is the mean, missing values skipped, over those rows: a mean of
\* iteration means, not a mean over all the partitions.
C21_TwoLevelAggregation ==
    cls = "RepeatedKFoldCV" =>
        /\ \A r \in 1..Len(repeated_fold_results.v) :
               Written(r - 1, "mean_results.tsv") =>
                   /\ Len(Table(r - 1, "mean_results.tsv")) = 1
                   /\ IsMeanRow(Table(r - 1, "mean_results.tsv")[1],
                                MetricRows(repeated_fold_results.v[r]))
        /\ Written(-1, "results.tsv") =>
               /\ Len(Table(-1, "results.tsv")) = Len(repeated_fold_results.v)
               /\ \A r \in 1..Len(repeated_fold_results.v) :
                      Table(-1, "results.tsv")[r] = Table(r - 1, "mean_results.tsv")[1]
        /\ Written(-1, "mean_results.tsv") =>
               /\ Len(Table(-1, "mean_results.tsv")) = 1
               /\ IsMeanRow(Table(-1, "mean_results.tsv")[1], Table(-1, "results.tsv"))

\* C21 happens: an iteration of two partitions and an iteration of one are
\* saved, and the outer mean of a column is not the mean over the three partitions
C21_Witness ==
    /\ cls = "RepeatedKFoldCV"
    /\ save_ret = SaveReturned
    /\ Len(repeated_fold_results.v) = 2
    /\ Len(repeated_fold_results.v[1]) = 2
    /\ Len(repeated_fold_results.v[2]) = 1
    /\ ~IsMeanOfPresent(Table(-1, "mean_results.tsv")[1].auc,
                        Column(MetricRows(StoredResults), "auc"))

\* the three tables of output_dir (r = -1) or output_dir/iteration-<r>
TripleOf(r) ==
    {File(r, FALSE, name, -1) : name \in {"subjects.tsv", "results.tsv", "mean_results.tsv"}}

\* the two files of every fold 0 .. n - 1 of the folds directory beside them
FoldFilesOf(r, n) ==
    {File(r, TRUE, name, i) : name \in {"subjects_fold", "results_fold"}, i \in 0..(n - 1)}

\* the files a successful save_results() writes for the stored FoldResults
Layout ==
    CASE cls = "KFoldCV" -> TripleOf(-1) \cup FoldFilesOf(-1, Len(fold_results.v))
      [] cls = "RepeatedSplit" ->
             TripleOf(-1) \cup UNION {TripleOf(r) : r \in 0..(Len(split_results.v) - 1)}
      [] OTHER ->
             TripleOf(-1)
             \cup UNION {TripleOf(r - 1) \cup FoldFilesOf(r - 1, Len(repeated_fold_results.v[r])) :
                         r \in 1..Len(repeated_fold_results.v)}

\* C22: the persisted layout.  A save_results() that returns has written
\* subjects.tsv, results.tsv and mean_results.tsv in output_dir; for KFoldCV also
\* folds/subjects_fold-<i>.tsv and folds/results_fold-<i>.tsv of every stored
\* fold i; for the repeated schemes the three tables in iteration-<r>/ of every
\* stored iteration r, and for RepeatedKFoldCV also the two files of every fold
\* of iteration r in iteration-<r>/folds/; no other file, and no index skipped.
C22_PersistedLayout ==
    save_ret = SaveReturned => DOMAIN files = Layout

\* C22 happens: a repeated k-fold of two iterations, one of two folds, is saved
C22_Witness ==
    /\ cls = "RepeatedKFoldCV"
    /\ save_ret = SaveReturned
    /\ Len(repeated_fold_results.v) = 2
    /\ Len(repeated_fold_results.v[2]) = 2
    /\ File(1, TRUE, "results_fold", 1) \in DOMAIN files

\* C23: termination depends on the tasks only.  Under fair scheduling a
\* validate() call whose evaluate calls all terminate returns or raises; once
\* an evaluate call hangs, validate() never returns: there is no timeout.
C23_TerminationDependsOnTasks ==
    /\ (pc # "idle") ~> (pc = "idle" \/ Hung # {})
    /\ [](Hung # {} => [](pc # "idle"))

\* C23 happens: a call of more tasks than workers, one of which raised, has ended
C23_Witness ==
    /\ pc = "idle"
    /\ ncalls = 1
    /\ Hung = {}
    /\ Len(async_result) > frame.n_threads
    /\ FailedTasks # {}
    /\ ret.kind = "raised"

\* C24: no cancellation on failure.  While a task of the call is queued or
\* running, a task that has raised does not let the caller past the join; when
\* validate() fails on a task, every partition of the call has been dispatched
\* and evaluated and every task has completed.
C24_NoCancellation ==
    /\ (FailedTasks # {} /\ Unfinished # {}) => PoolAlive
    /\ ValidateFailedOnTask =>
           /\ Finished = 1..Len(async_result)
           /\ Len(async_result) = PartitionsAsked
           /\ Len(evaluate_calls) = PartitionsAsked

\* C24 happens: the one worker's first task raised, the partition queued behind
\* it was evaluated all the same, and validate() has failed
C24_Witness ==
    /\ ValidateFailedOnTask
    /\ frame.n_threads = 1
    /\ Len(async_result) >= 2
    /\ async_result[1].st = "raised"
    /\ async_result[2].st = "ok"

\* the first task of the call, in dispatch order, whose evaluate raised
LowestFailedTask == CHOOSE k \in FailedTasks : \A j \in FailedTasks : k <= j

\* C26: when the evaluate calls of several partitions raise in one validate()
\* call, the exception validate() raises is the one of the failing partition of
\* lowest index (tasks are dispatched in partition order, iteration-major),
\* whatever the order the tasks failed in.
C26_LowestFailureSurfaces ==
    ValidateFailedOnTask => ret.exc = EvaluateErrorIn(LowestFailedTask)

\* C26 happens: two evaluate calls of a call have raised and validate() has failed
C26_Witness ==
    /\ ValidateFailedOnTask
    /\ Cardinality(FailedTasks) >= 2
    /\ ret.exc.task = 1

\* C25: when RepeatedKFoldCV.validate(y, n_iterations, n_folds), n_iterations >= 1,
\* returns, also on a second call, the stored and returned nested structure has n_iterations
\* entries of n_folds FoldResults each, entry [r][i] is the value of evaluate on
\* self._cv[r][i], apply_best_parameters was given the structure flattened,
\* and no iteration is empty.
C25_NestedResultStructure ==
    (cls = "RepeatedKFoldCV" /\ ValidateReturned /\ frame.n_iterations >= 1) =>
        LET nested == repeated_fold_results.v
        IN  /\ ret.results = nested
            /\ Len(nested) = frame.n_iterations
            /\ \A r \in 1..Len(nested) :
                   /\ nested[r] # <<>>
                   /\ Len(nested[r]) = frame.n_folds
                   /\ r <= Len(cv.v)
                   /\ \A i \in 1..Len(nested[r]) :
                          /\ i <= Len(cv.v[r])
                          /\ nested[r][i] = Evaluate(cv.v[r][i])
            /\ apply_calls = <<Flatten(nested)>>

\* C27: RepeatedSplit.save_results().  The mean_results row of every iteration
\* is the results row of the iteration, the seven metrics of its split result,
\* a missing metric staying missing; the outer results table has one row per
\* split result, row i with the seven metrics of split result i; the outer
\* subjects table is the subjects tables of the iterations one after the other.
C27_RepeatedSplitTables ==
    (cls = "RepeatedSplit" /\ save_ret = SaveReturned) =>
        LET results == split_results.v
        IN  /\ \A i \in 1..Len(results) :
                   /\ Table(i - 1, "results.tsv") = MetricRows(<<results[i]>>)
                   /\ Table(i - 1, "mean_results.tsv") = Table(i - 1, "results.tsv")
                   /\ Table(i - 1, "subjects.tsv") = SubjectRows(<<results[i]>>)
            /\ Table(-1, "results.tsv") = MetricRows(results)
            /\ Table(-1, "subjects.tsv") =
                   Flatten([i \in 1..Len(results) |-> Table(i - 1, "subjects.tsv")])

\* C27 happens: a repeated split of two results is saved, the first without
\* sensitivity, and the first iteration's mean row has no sensitivity
C27_Witness ==
    /\ cls = "RepeatedSplit"
    /\ save_ret = SaveReturned
    /\ Len(split_results.v) = 2
    /\ IsNaN(split_results.v[1].evaluation.sensitivity)
    /\ ~IsNaN(split_results.v[2].evaluation.sensitivity)
    /\ IsNaN(Table(0, "mean_results.tsv")[1].sensitivity)
    /\ Len(Table(-1, "results.tsv")) = 2

\* C28: save_results() reads the validation state only and is idempotent.  A
\* save_results() call leaves the stored FoldResults, self._cv, the classifier
\* and the best parameters as they are; a call that follows another one, the
\* directories being there already, leaves the same files with the same
\* contents and ends as the first did.
C28_SaveReadOnlyIdempotent ==
    [][nsaves' # nsaves =>
          /\ UNCHANGED <<result_vars, cv, model_vars>>
          /\ nsaves >= 1 => (files' = files /\ dirs' = dirs /\ save_ret' = save_ret)]_vars

\* C28 happens: a k-fold of two FoldResults has been saved twice
C28_Witness ==
    /\ cls = "KFoldCV"
    /\ nsaves = 2
    /\ save_ret = SaveReturned
    /\ Len(fold_results.v) = 2
    /\ Dir(-1, TRUE) \in dirs

====
